---- MODULE Spec2Model ----
(***************************************************************************)
(* The POST /analyze handler of the fact-checker server, in its two        *)
(* variants (src/server.js and src/unnamed/part_000), as a state machine   *)
(* over JavaScript values.  A request is received, runs synchronously to   *)
(* its response or to the single await on model.generateContent, and is    *)
(* resumed when the provider settles that call.                            *)
(***************************************************************************)
EXTENDS Integers, Sequences, FiniteSets, TLC

VARIABLES variant, GEMINI_API_KEY, pc, reqBody, calls, settled, responses,
          path, escaped

vars == <<variant, GEMINI_API_KEY, pc, reqBody, calls, settled, responses,
          path, escaped>>

-----------------------------------------------------------------------------
(* Bounds of the model.                                                    *)

\* Requests that can be in flight at once under ConcSpec.
MaxRequests == 2
\* Longest submitted text is MaxTextLength + ExtraLen characters.
ExtraLen == 1
\* Provider scores range over MinScore - ScoreMargin .. MaxScore + ScoreMargin.
ScoreMargin == 2

(* Constants of the program.                                               *)
MinTextLength == 50
MaxTextLength == 5000
MinScore == 0
MaxScore == 10
DefaultScore == 5
DefaultClaimsChecked == 0

-----------------------------------------------------------------------------
(* JavaScript values.  A string is a sequence of one-character strings, an *)
(* array a sequence of values with its named (non-index) properties kept   *)
(* apart, an object the sequence of its own properties in insertion order. *)
(* Numbers are integers; NaN is the one non-integer number the handler     *)
(* can produce from a JSON document.  Each kind of value keeps its content *)
(* in a field of its own name.                                             *)

Undefined == [t |-> "undefined"]
Null == [t |-> "null"]
NaN == [t |-> "NaN"]
Num(n) == [t |-> "number", n |-> n]
Bool(b) == [t |-> "boolean", b |-> b]
Str(s) == [t |-> "string", s |-> s]
Arr(a) == [t |-> "array", a |-> a, props |-> <<>>]
Obj(m) == [t |-> "object", m |-> m]
Prop(k, x) == [k |-> k, v |-> x]

\* Property names and the other strings of the handler.
LengthKey == <<"l", "e", "n", "g", "t", "h">>
MessageKey == <<"m", "e", "s", "s", "a", "g", "e">>
TextKey == <<"t", "e", "x", "t">>
ErrorKey == <<"e", "r", "r", "o", "r">>
ScoreKey == <<"s", "c", "o", "r", "e">>
RiskKey == <<"r", "i", "s", "k">>
SummaryKey == <<"s", "u", "m", "m", "a", "r", "y">>
SourcesKey == <<"s", "o", "u", "r", "c", "e", "s">>
ClaimsCheckedKey ==
  <<"c", "l", "a", "i", "m", "s", "C", "h", "e", "c", "k", "e", "d">>

\* An Error object of the named class; its message is a non-empty string.
Error(class) ==
  [t |-> "object", class |-> class,
   m |-> <<Prop(MessageKey, Str(<<"m", "s", "g">>))>>]

\* A completion record: the value of an expression, or the value thrown.
Normal(x) == [type |-> "normal", value |-> x]
Throw(e) == [type |-> "throw", value |-> e]

IsNullish(x) == x.t \in {"undefined", "null"}
IsPrimitive(x) == x.t \in {"number", "NaN", "boolean", "string"}

\* ToBoolean: what `!x` and `x || y` test.
Truthy(x) ==
  CASE x.t \in {"undefined", "null", "NaN"} -> FALSE
    [] x.t = "number" -> x.n # 0
    [] x.t = "boolean" -> x.b
    [] x.t = "string" -> Len(x.s) > 0
    [] OTHER -> TRUE

TypeOf(x) ==
  CASE x.t = "undefined" -> "undefined"
    [] x.t \in {"number", "NaN"} -> "number"
    [] x.t = "boolean" -> "boolean"
    [] x.t = "string" -> "string"
    [] OTHER -> "object"

\* x || y
Or(x, y) == IF Truthy(x) THEN x ELSE y

Digits == <<"0", "1", "2", "3", "4", "5", "6", "7", "8", "9">>
IsDigit(c) == \E d \in 1..Len(Digits) : Digits[d] = c
DigitValue(c) == (CHOOSE d \in 1..Len(Digits) : Digits[d] = c) - 1

RECURSIVE DigitsValue(_)
DigitsValue(s) ==
  IF s = <<>> THEN 0
  ELSE 10 * DigitsValue(SubSeq(s, 1, Len(s) - 1)) + DigitValue(s[Len(s)])

\* StringToNumber: the empty string is 0, a run of decimal digits with an
\* optional minus sign is its value, anything else is NaN.
StringToNumber(s) ==
  LET digits == IF s # <<>> /\ s[1] = "-" THEN Tail(s) ELSE s
      neg == s # <<>> /\ s[1] = "-"
  IN IF s = <<>> THEN Num(0)
     ELSE IF digits # <<>> /\ \A i \in 1..Len(digits) : IsDigit(digits[i])
          THEN Num(IF neg THEN 0 - DigitsValue(digits) ELSE DigitsValue(digits))
          ELSE NaN

\* ToNumber, as Math.max, Math.min and `<` apply it to an operand.  An array
\* converts through its join(","): no element is "", one element is that
\* element's string, more contain a comma.
RECURSIVE ToNumber(_)
ToNumber(x) ==
  CASE x.t = "undefined" -> NaN
    [] x.t = "null" -> Num(0)
    [] x.t = "NaN" -> NaN
    [] x.t = "number" -> x
    [] x.t = "boolean" -> Num(IF x.b THEN 1 ELSE 0)
    [] x.t = "string" -> StringToNumber(x.s)
    [] x.t = "array" ->
         IF Len(x.a) = 0 THEN Num(0)
         ELSE IF Len(x.a) > 1 THEN NaN
         ELSE IF IsNullish(x.a[1]) THEN Num(0)
         ELSE IF x.a[1].t = "boolean" THEN NaN
         ELSE ToNumber(x.a[1])
    [] OTHER -> NaN

MathMax(a, b) ==
  LET na == ToNumber(a)
      nb == ToNumber(b)
  IN IF na.t = "NaN" \/ nb.t = "NaN" THEN NaN
     ELSE IF na.n >= nb.n THEN na ELSE nb

MathMin(a, b) ==
  LET na == ToNumber(a)
      nb == ToNumber(b)
  IN IF na.t = "NaN" \/ nb.t = "NaN" THEN NaN
     ELSE IF na.n <= nb.n THEN na ELSE nb

\* a < b with a number on the right: false when either side is NaN.
LessThan(a, b) ==
  LET na == ToNumber(a)
      nb == ToNumber(b)
  IN na.t # "NaN" /\ nb.t # "NaN" /\ na.n < nb.n

HasOwn(m, k) == \E i \in 1..Len(m) : m[i].k = k
Lookup(m, k) == m[CHOOSE i \in 1..Len(m) : m[i].k = k].v

\* x[k] for a value that is not null or undefined.
GetProp(x, k) ==
  CASE x.t = "string" -> IF k = LengthKey THEN Num(Len(x.s)) ELSE Undefined
    [] x.t = "array" ->
         IF k = LengthKey THEN Num(Len(x.a))
         ELSE IF HasOwn(x.props, k) THEN Lookup(x.props, k) ELSE Undefined
    [] x.t = "object" -> IF HasOwn(x.m, k) THEN Lookup(x.m, k) ELSE Undefined
    [] OTHER -> Undefined

Put(m, k, y) ==
  IF HasOwn(m, k)
  THEN [i \in 1..Len(m) |-> IF m[i].k = k THEN Prop(k, y) ELSE m[i]]
  ELSE Append(m, Prop(k, y))

\* x[k] = y on an object or an array (k is never an index or "length").
SetProp(x, k, y) ==
  IF x.t = "array" THEN [x EXCEPT !.props = Put(x.props, k, y)]
  ELSE [x EXCEPT !.m = Put(x.m, k, y)]

\* The methods the handler calls exist on these values only.
HasSubstring(x) == x.t = "string"
HasJoin(x) == x.t = "array"

Min(a, b) == IF a <= b THEN a ELSE b

\* A substring that keeps the whole string.
SubstringUncut(s, n) == s

\* s.substring(0, n)
Substring(s, n) == Str(SubSeq(s.s, 1, Min(Len(s.s), n)))

-----------------------------------------------------------------------------
(* JSON text is a sequence of tokens: punctuation, numbers, strings, the   *)
(* literals null, true and false, and anything else (prose, a markdown     *)
(* fence), which no JSON document contains.                                *)

Punct(s) == [k |-> "punct", s |-> s]
NumTok(n) == [k |-> "number", n |-> n]
StrTok(s) == [k |-> "string", chars |-> s]
LitTok(w) == [k |-> "literal", s |-> w]
JunkTok == [k |-> "junk", s |-> "fence"]

IsPunct(toks, i, s) == i <= Len(toks) /\ toks[i].k = "punct" /\ toks[i].s = s

ParseOk(x, next) == [ok |-> TRUE, value |-> x, next |-> next]
ParseFail == [ok |-> FALSE]

RECURSIVE ParseValue(_, _), ParseElements(_, _, _), ParseMembers(_, _, _)

\* The value that starts at token i, and the position after it.
ParseValue(toks, i) ==
  IF i > Len(toks) THEN ParseFail
  ELSE LET tk == toks[i]
       IN CASE tk.k = "number" -> ParseOk(Num(tk.n), i + 1)
            [] tk.k = "string" -> ParseOk(Str(tk.chars), i + 1)
            [] tk.k = "literal" ->
                 ParseOk(IF tk.s = "null" THEN Null ELSE Bool(tk.s = "true"),
                         i + 1)
            [] IsPunct(toks, i, "[") ->
                 IF IsPunct(toks, i + 1, "]") THEN ParseOk(Arr(<<>>), i + 2)
                 ELSE ParseElements(toks, i + 1, <<>>)
            [] IsPunct(toks, i, "{") ->
                 IF IsPunct(toks, i + 1, "}") THEN ParseOk(Obj(<<>>), i + 2)
                 ELSE ParseMembers(toks, i + 1, <<>>)
            [] OTHER -> ParseFail

\* The rest of an array whose next element starts at token i.
ParseElements(toks, i, acc) ==
  LET e == ParseValue(toks, i)
  IN IF ~e.ok THEN ParseFail
     ELSE IF IsPunct(toks, e.next, ",")
          THEN ParseElements(toks, e.next + 1, Append(acc, e.value))
     ELSE IF IsPunct(toks, e.next, "]")
          THEN ParseOk(Arr(Append(acc, e.value)), e.next + 1)
     ELSE ParseFail

\* The rest of an object whose next member starts at token i; a repeated
\* key keeps its first position and its last value.
ParseMembers(toks, i, acc) ==
  IF ~(i <= Len(toks) /\ toks[i].k = "string" /\ IsPunct(toks, i + 1, ":"))
  THEN ParseFail
  ELSE LET e == ParseValue(toks, i + 2)
       IN IF ~e.ok THEN ParseFail
          ELSE IF IsPunct(toks, e.next, ",")
               THEN ParseMembers(toks, e.next + 1, Put(acc, toks[i].chars, e.value))
          ELSE IF IsPunct(toks, e.next, "}")
               THEN ParseOk(Obj(Put(acc, toks[i].chars, e.value)), e.next + 1)
          ELSE ParseFail

\* JSON.parse(text): the value, or a SyntaxError.
JSONparse(toks) ==
  LET r == ParseValue(toks, 1)
  IN IF r.ok /\ r.next = Len(toks) + 1 THEN Normal(r.value)
     ELSE Throw(Error("SyntaxError"))

RECURSIVE Stringify(_), StringifyElements(_, _), StringifyMembers(_, _, _)

\* JSON.stringify(x) of a value that is not undefined: NaN is written as
\* null, an undefined array element as null, a member whose value is
\* undefined is left out, and so are the named properties of an array.
Stringify(x) ==
  CASE x.t = "number" -> <<NumTok(x.n)>>
    [] x.t = "string" -> <<StrTok(x.s)>>
    [] x.t = "boolean" -> <<LitTok(IF x.b THEN "true" ELSE "false")>>
    [] x.t = "array" -> <<Punct("[")>> \o StringifyElements(x.a, 1) \o <<Punct("]")>>
    [] x.t = "object" ->
         <<Punct("{")>> \o StringifyMembers(x.m, 1, TRUE) \o <<Punct("}")>>
    [] OTHER -> <<LitTok("null")>>

StringifyElements(a, i) ==
  IF i > Len(a) THEN <<>>
  ELSE (IF i > 1 THEN <<Punct(",")>> ELSE <<>>)
       \o Stringify(a[i]) \o StringifyElements(a, i + 1)

StringifyMembers(m, i, first) ==
  IF i > Len(m) THEN <<>>
  ELSE IF m[i].v.t = "undefined" THEN StringifyMembers(m, i + 1, first)
  ELSE (IF first THEN <<>> ELSE <<Punct(",")>>)
       \o <<StrTok(m[i].k), Punct(":")>> \o Stringify(m[i].v)
       \o StringifyMembers(m, i + 1, FALSE)

-----------------------------------------------------------------------------
(* The string literals of the two handlers.                                *)

MediumRisk ==
  <<"M", "e", "d", "i", "u", "m", " ", "R", "i", "s", "k">>

TooShortSummaryServer ==
  <<"P", "o", "s", "t", " ", "t", "o", "o", " ", "s", "h", "o", "r", "t", " ",
    "f", "o", "r", " ", "m", "e", "a", "n", "i", "n", "g", "f", "u", "l", " ",
    "a", "n", "a", "l", "y", "s", "i", "s", ".">>

ConfigErrorServer ==
  <<"S", "e", "r", "v", "e", "r", " ", "c", "o", "n", "f", "i", "g", "u", "r",
    "a", "t", "i", "o", "n", " ", "e", "r", "r", "o", "r">>

NotConfiguredSummaryServer ==
  <<"S", "e", "r", "v", "e", "r", " ", "n", "o", "t", " ", "p", "r", "o", "p",
    "e", "r", "l", "y", " ", "c", "o", "n", "f", "i", "g", "u", "r", "e", "d",
    ".">>

AnalysisFailedError ==
  <<"A", "n", "a", "l", "y", "s", "i", "s", " ", "f", "a", "i", "l", "e", "d">>

FailedSummaryServer ==
  <<"C", "o", "u", "l", "d", " ", "n", "o", "t", " ", "c", "o", "m", "p", "l",
    "e", "t", "e", " ", "f", "a", "c", "t", "-", "c", "h", "e", "c", "k", " ",
    "d", "u", "e", " ", "t", "o", " ", "s", "e", "r", "v", "e", "r", " ", "e",
    "r", "r", "o", "r", ".">>

TooShortErrorPart ==
  <<"P", "o", "s", "t", " ", "t", "o", "o", " ", "s", "h", "o", "r", "t">>

TooShortSummaryPart ==
  <<"P", "o", "s", "t", " ", "t", "o", "o", " ", "s", "h", "o", "r", "t", " ",
    "f", "o", "r", " ", "m", "e", "a", "n", "i", "n", "g", "f", "u", "l", " ",
    "f", "a", "c", "t", "-", "c", "h", "e", "c", "k", ".">>

ConfigErrorPart ==
  <<"A", "P", "I", " ", "k", "e", "y", " ", "n", "o", "t", " ", "c", "o", "n",
    "f", "i", "g", "u", "r", "e", "d">>

NotConfiguredSummaryPart ==
  <<"S", "e", "r", "v", "e", "r", " ", "c", "o", "n", "f", "i", "g", "u", "r",
    "a", "t", "i", "o", "n", " ", "e", "r", "r", "o", "r", ".", " ", "C", "o",
    "n", "t", "a", "c", "t", " ", "a", "d", "m", "i", "n", "i", "s", "t", "r",
    "a", "t", "o", "r", ".">>

FailedSummaryPart ==
  <<"C", "o", "u", "l", "d", " ", "n", "o", "t", " ", "c", "o", "m", "p", "l",
    "e", "t", "e", " ", "f", "a", "c", "t", "-", "c", "h", "e", "c", "k", ".",
    " ", "S", "e", "r", "v", "e", "r", " ", "e", "r", "r", "o", "r", " ", "o",
    "c", "c", "u", "r", "r", "e", "d", ".">>

PromptPrefixServer ==
  <<"F", "a", "c", "t", "-", "c", "h", "e", "c", "k", " ", "t", "h", "i", "s",
    ":", "\n", "\n">>

PromptPrefixPart ==
  <<"F", "a", "c", "t", "-", "c", "h", "e", "c", "k", " ", "t", "h", "i", "s",
    " ", "p", "o", "s", "t", ":", "\n", "\n">>
-----------------------------------------------------------------------------
(* POST /analyze.  variant names the file that is deployed: "server" is    *)
(* src/server.js, "part_000" is src/unnamed/part_000.                      *)

Variants == {"server", "part_000"}

Payload(error, summary) ==
  Obj(error \o <<Prop(ScoreKey, Num(5)), Prop(RiskKey, Str(MediumRisk)),
                 Prop(SummaryKey, Str(summary)), Prop(SourcesKey, Arr(<<>>)),
                 Prop(ClaimsCheckedKey, Num(0))>>)

TooShortPayloadServer == Payload(<<>>, TooShortSummaryServer)

TooShortPayloadPart ==
  Payload(<<Prop(ErrorKey, Str(TooShortErrorPart))>>, TooShortSummaryPart)

TooShortPayload(v) ==
  IF v = "server" THEN TooShortPayloadServer ELSE TooShortPayloadPart

NotConfiguredPayloadServer ==
  Payload(<<Prop(ErrorKey, Str(ConfigErrorServer))>>, NotConfiguredSummaryServer)

NotConfiguredPayloadPart ==
  Payload(<<Prop(ErrorKey, Str(ConfigErrorPart))>>, NotConfiguredSummaryPart)

NotConfiguredPayload(v) ==
  IF v = "server" THEN NotConfiguredPayloadServer ELSE NotConfiguredPayloadPart

FailedPayloadServer ==
  Payload(<<Prop(ErrorKey, Str(AnalysisFailedError))>>, FailedSummaryServer)

FailedPayloadPart ==
  Payload(<<Prop(ErrorKey, Str(AnalysisFailedError))>>, FailedSummaryPart)

FailedPayload(v) ==
  IF v = "server" THEN FailedPayloadServer ELSE FailedPayloadPart

PromptPrefix(v) == IF v = "server" THEN PromptPrefixServer ELSE PromptPrefixPart

\* res.status(status).json(x); res.json(x) is status 200.
Response(status, x) == [status |-> status, body |-> Stringify(x)]

\* What one run of the handler, from its entry or from its resumption to
\* its return or its await, has done: the responses sent, the provider
\* calls issued, the stages passed, whether it is suspended at the await,
\* and whether an exception left it.
Ran(resp, call, stages, awaiting, esc) ==
  [responses |-> resp, calls |-> call, stages |-> stages,
   awaiting |-> awaiting, escaped |-> esc]

\* The argument of model.generateContent: the user part and the search
\* tool.
ProviderRequest(v, truncatedText) ==
  [userText |-> Str(PromptPrefix(v) \o truncatedText.s), googleSearch |-> TRUE]

\* A catch block that logs and throws the error on.
CatchRethrow(v, e) == Ran(<<>>, <<>>, <<"failed">>, FALSE, TRUE)

\* A catch block that logs and sends nothing.
CatchLogsOnly(v, e) == Ran(<<>>, <<>>, <<"failed">>, FALSE, FALSE)

\* A catch block that calls the provider again.
CatchRetry(v, e) ==
  Ran(<<>>, <<ProviderRequest(v, Str(<<>>))>>, <<"failed", "call_in_flight">>,
      TRUE, FALSE)

\* The catch block: error.message is read for the log, then the failure
\* response is sent.
Catch(v, e) ==
  IF IsNullish(e)
  THEN Ran(<<>>, <<>>, <<"failed">>, FALSE, TRUE)
  ELSE Ran(<<Response(500, FailedPayload(v))>>, <<>>,
           <<"failed", "responded">>, FALSE, FALSE)

\* The input guard of server.js.
TooShortServer(text) ==
  \/ ~Truthy(text)
  \/ TypeOf(text) # "string"
  \/ LessThan(GetProp(text, LengthKey), Num(MinTextLength))

\* The input guard of part_000, which has no typeof test.
TooShortPart(text) ==
  \/ ~Truthy(text)
  \/ LessThan(GetProp(text, LengthKey), Num(MinTextLength))

TooShort(v, text) ==
  IF v = "server" THEN TooShortServer(text) ELSE TooShortPart(text)

\* A credential guard that only sees an unset variable.
KeyMissingStrict(key) == key.t = "undefined"

\* The credential guard.
KeyMissing(key) == ~Truthy(key)

\* The handler from its entry to its first return or to the await.  body
\* is req.body as express.json() leaves it: the parsed JSON object.
AnalyzeBegin(v, key, body) ==
  LET text == GetProp(body, TextKey)
  IN IF TooShort(v, text)
     THEN Ran(<<Response(200, TooShortPayload(v))>>, <<>>,
              <<"received", "degenerate", "responded">>, FALSE, FALSE)
     ELSE IF KeyMissing(key)
     THEN Ran(<<Response(500, NotConfiguredPayload(v))>>, <<>>,
              <<"received", "validated", "failed", "responded">>, FALSE, FALSE)
     ELSE IF ~HasSubstring(text)
     THEN LET c == Catch(v, Error("TypeError"))
          IN [c EXCEPT !.stages = <<"received", "validated">> \o @]
     ELSE Ran(<<>>,
              <<ProviderRequest(v, Substring(text, MaxTextLength))>>,
              <<"received", "validated", "call_in_flight">>, TRUE, FALSE)

\* How the provider settles a call: the promise rejects, or it resolves
\* and response.text() throws (no usable candidate), or it resolves and
\* response.text() is the reply text.
Rejected(e) == [type |-> "reject", error |-> e]
Blocked(e) == [type |-> "blocked", error |-> e]
Replied(toks) == [type |-> "text", text |-> toks]

\* analysis.score = Math.min(10, Math.max(0, analysis.score || 5))
ClampScore(score) ==
  MathMin(Num(MaxScore), MathMax(Num(MinScore), Or(score, Num(DefaultScore))))

\* analysis.sources = analysis.sources || []
DefaultSources(sources) == Or(sources, Arr(<<>>))

\* analysis.claimsChecked = analysis.claimsChecked || 0
DefaultClaims(claimsChecked) == Or(claimsChecked, Num(DefaultClaimsChecked))

\* The three assignments on the parsed reply, which is an object or an
\* array here.
Normalize(analysis) ==
  LET a1 == SetProp(analysis, ScoreKey, ClampScore(GetProp(analysis, ScoreKey)))
      a2 == SetProp(a1, SourcesKey, DefaultSources(GetProp(a1, SourcesKey)))
  IN SetProp(a2, ClaimsCheckedKey, DefaultClaims(GetProp(a2, ClaimsCheckedKey)))

\* Whether the log line of server.js after the assignments throws: it
\* reads analysis.sources.length, and sources is truthy here.
LoggingThrowsServer(analysis) == IsNullish(GetProp(analysis, SourcesKey))

\* Whether the log lines of part_000 throw: they call sources.join when
\* sources.length is positive.
LoggingThrowsPart(analysis) ==
  LET sources == GetProp(analysis, SourcesKey)
  IN \/ IsNullish(sources)
     \/ /\ LessThan(Num(0), GetProp(sources, LengthKey))
        /\ ~HasJoin(sources)

LoggingThrows(v, analysis) ==
  IF v = "server" THEN LoggingThrowsServer(analysis)
  ELSE LoggingThrowsPart(analysis)

\* The handler from the settling of its provider call to its return.  The
\* files are ES modules, hence strict code: assigning a property of a
\* primitive throws, as reading a property of null does.
AnalyzeResume(v, text, outcome) ==
  IF outcome.type # "text" THEN Catch(v, outcome.error)
  ELSE
  LET parsed == JSONparse(outcome.text)
  IN IF parsed.type = "throw" THEN Catch(v, parsed.value)
     ELSE IF IsNullish(parsed.value) \/ IsPrimitive(parsed.value)
     THEN Catch(v, Error("TypeError"))
     ELSE LET analysis == Normalize(parsed.value)
          IN IF LoggingThrows(v, analysis) THEN Catch(v, Error("TypeError"))
             ELSE Ran(<<Response(200, analysis)>>, <<>>,
                      <<"parsed_and_clamped", "responded">>, FALSE, FALSE)

-----------------------------------------------------------------------------
(* The inputs: request bodies and the ways the provider settles a call.    *)

Alphabet == <<"a", "b", "c", "d", "e", "f", "g">>

\* A text of n characters whose characters depend on their position.
MakeText(n, seed) ==
  [i \in 1..n |-> Alphabet[((i + seed) % Len(Alphabet)) + 1]]

TextLengths ==
  {0, 1, MinTextLength - 1, MinTextLength, MinTextLength + 1,
   MaxTextLength - 1, MaxTextLength}
    \cup {MaxTextLength + d : d \in 1..ExtraLen}

WithText(text) == Obj(<<Prop(TextKey, text)>>)

\* Bodies whose text is a string, of every length around the two limits.
StringBodies == {WithText(Str(MakeText(n, 0))) : n \in TextLengths}

\* Bodies whose text is missing or is not a string.
OtherBodies ==
  {Obj(<<>>), WithText(Null), WithText(Num(0)), WithText(Num(12345)),
   WithText(Bool(FALSE)), WithText(Bool(TRUE)), WithText(Arr(<<>>)),
   WithText(Arr(<<Str(<<"a">>)>>)),
   WithText(Arr([i \in 1..MinTextLength |-> Num(i)])),
   WithText(Obj(<<>>)),
   WithText(Obj(<<Prop(LengthKey, Num(MinTextLength))>>))}

RequestBodies == StringBodies \cup OtherBodies

Trustworthy ==
  <<"T", "r", "u", "s", "t", "w", "o", "r", "t", "h", "y">>

HighRisk ==
  <<"H", "i", "g", "h", " ", "R", "i", "s", "k">>

Reuters == Str(<<"R", "e", "u", "t", "e", "r", "s">>)
Snopes == Str(<<"S", "n", "o", "p", "e", "s">>)
OkSummary == Str(<<"o", "k">>)

\* A reply object with the given values; a field given as Undefined is
\* left out of the document.
Reply(score, risk, summary, sources, claimsChecked) ==
  Stringify(Obj(<<Prop(ScoreKey, score), Prop(RiskKey, risk),
                  Prop(SummaryKey, summary), Prop(SourcesKey, sources),
                  Prop(ClaimsCheckedKey, claimsChecked)>>))

ScoreValues ==
  {Num(s) : s \in (MinScore - ScoreMargin)..(MaxScore + ScoreMargin)}
    \cup {Undefined, Null, Bool(TRUE), Bool(FALSE), Str(<<>>), Str(<<"7">>),
          Str(<<"4", "2">>), Str(<<"h", "i", "g", "h">>), Obj(<<>>),
          Arr(<<>>), Arr(<<Str(<<"7">>)>>), Arr(<<Num(1), Num(2)>>)}

RiskValues ==
  {Undefined, Null, Str(Trustworthy), Str(MediumRisk), Str(HighRisk),
   Str(<<"?">>), Num(3)}

SummaryValues == {Undefined, Null, OkSummary, Num(1)}

SourcesValues ==
  {Undefined, Null, Arr(<<>>), Arr(<<Reuters>>), Arr(<<Reuters, Snopes>>),
   Arr(<<Num(1)>>), Reuters, Str(<<>>), Num(5), Bool(TRUE), Obj(<<>>),
   Obj(<<Prop(LengthKey, Num(2))>>)}

ClaimsValues ==
  {Undefined, Null, Num(0), Num(3), Num(0 - 1), Str(<<"3">>), Bool(TRUE),
   Arr(<<>>)}

\* Replies that are a JSON object: a reply the schema allows, with one
\* field at a time replaced by every value above, and the empty object.
ObjectReplies ==
  {Reply(s, Str(Trustworthy), OkSummary, Arr(<<Reuters>>), Num(3)) :
     s \in ScoreValues}
  \cup {Reply(Num(9), k, OkSummary, Arr(<<Reuters>>), Num(3)) : k \in RiskValues}
  \cup {Reply(Num(9), Str(Trustworthy), m, Arr(<<Reuters>>), Num(3)) :
          m \in SummaryValues}
  \cup {Reply(Num(2), Str(Trustworthy), OkSummary, x, Num(3)) :
          x \in SourcesValues}
  \cup {Reply(Num(9), Str(HighRisk), OkSummary, Arr(<<Reuters>>), c) :
          c \in ClaimsValues}
  \cup {Stringify(Obj(<<>>))}

\* Replies that are a JSON document but not an object.
NonObjectReplies ==
  {Stringify(x) : x \in {Null, Num(7), Num(0), Reuters, Bool(TRUE), Arr(<<>>),
                         Arr(<<Num(1), Num(2)>>)}}

GoodReply == Reply(Num(9), Str(Trustworthy), OkSummary, Arr(<<Reuters>>), Num(3))

\* Reply texts that are not a JSON document: nothing, prose, a document in
\* a markdown fence, a document cut short, two documents.
MalformedReplies ==
  {<<>>, <<JunkTok>>, <<JunkTok>> \o GoodReply \o <<JunkTok>>,
   SubSeq(GoodReply, 1, Len(GoodReply) - 1), GoodReply \o GoodReply}

ProviderOutcomes ==
  {Rejected(Error("GoogleGenerativeAIFetchError")),
   Blocked(Error("GoogleGenerativeAIResponseError"))}
    \cup {Replied(t) : t \in ObjectReplies \cup NonObjectReplies
                               \cup MalformedReplies}

\* The inputs of the concurrent specification: few enough for every
\* interleaving of several requests, different enough to tell the requests
\* and their replies apart.
ConcBodies ==
  {Obj(<<>>), WithText(Num(12345)),
   WithText(Str(MakeText(MinTextLength, 0))),
   WithText(Str(MakeText(MinTextLength + 1, 3)))}

ConcOutcomes ==
  {Rejected(Error("GoogleGenerativeAIFetchError")), Replied(<<JunkTok>>),
   Replied(GoodReply),
   Replied(Reply(Num(0), Str(HighRisk), OkSummary, Undefined, Num(1)))}

-----------------------------------------------------------------------------
(* The server.  Each request slot r is one POST /analyze: idle before it   *)
(* arrives, awaiting while its handler is suspended on the provider call,  *)
(* done once the handler has returned.  For each request the model keeps   *)
(* what it observed: the body received, the provider calls issued, how the *)
(* provider settled them, the responses sent, the stages passed, whether   *)
(* an exception left the handler.                                          *)

Requests == 1..MaxRequests

\* process.env.GEMINI_API_KEY: unset, set to the empty string, or set.
KeyValues == {Undefined, Str(<<>>), Str(<<"k", "e", "y">>)}

Init ==
  /\ variant \in Variants
  /\ GEMINI_API_KEY \in KeyValues
  /\ pc = [r \in Requests |-> "idle"]
  /\ reqBody = [r \in Requests |-> Undefined]
  /\ calls = [r \in Requests |-> <<>>]
  /\ settled = [r \in Requests |-> <<>>]
  /\ responses = [r \in Requests |-> <<>>]
  /\ path = [r \in Requests |-> <<>>]
  /\ escaped = [r \in Requests |-> FALSE]

\* What a run of the handler leaves behind for request r.
Apply(r, ran) ==
  /\ pc' = [pc EXCEPT ![r] = IF ran.awaiting THEN "awaiting" ELSE "done"]
  /\ calls' = [calls EXCEPT ![r] = @ \o ran.calls]
  /\ responses' = [responses EXCEPT ![r] = @ \o ran.responses]
  /\ path' = [path EXCEPT ![r] = @ \o ran.stages]
  /\ escaped' = [escaped EXCEPT ![r] = @ \/ ran.escaped]

\* A request arrives and its handler runs to its return or to the await.
Receive(r, bodies) ==
  /\ pc[r] = "idle"
  /\ \E body \in bodies :
       /\ reqBody' = [reqBody EXCEPT ![r] = body]
       /\ Apply(r, AnalyzeBegin(variant, GEMINI_API_KEY, body))
  /\ UNCHANGED <<variant, GEMINI_API_KEY, settled>>

\* The provider settles the call of request r and the handler resumes and
\* runs to its return.
Settle(r, outcomes) ==
  /\ pc[r] = "awaiting"
  /\ \E outcome \in outcomes :
       /\ settled' = [settled EXCEPT ![r] = Append(@, outcome)]
       /\ Apply(r, AnalyzeResume(variant, GetProp(reqBody[r], TextKey), outcome))
  /\ UNCHANGED <<variant, GEMINI_API_KEY, reqBody>>

\* One request, every input.
Next ==
  \/ Receive(1, RequestBodies)
  \/ Settle(1, ProviderOutcomes)

Spec == Init /\ [][Next]_vars

\* Several requests at once, in every interleaving.
ConcNext ==
  \E r \in Requests :
    \/ Receive(r, ConcBodies)
    \/ Settle(r, ConcOutcomes)

ConcSpec == Init /\ [][ConcNext]_vars

-----------------------------------------------------------------------------
(* What the properties below speak about.                                  *)

Arrived(r) == pc[r] # "idle"
Answered(r) == pc[r] = "done" /\ Len(responses[r]) = 1

\* The `text` of request r as the handler destructures it.
Text(r) == GetProp(reqBody[r], TextKey)

IsStringOfAtLeast(x, n) == x.t = "string" /\ Len(x.s) >= n
IsShortString(x, n) == x.t = "string" /\ Len(x.s) < n

CredentialAbsent == GEMINI_API_KEY.t = "undefined" \/ GEMINI_API_KEY = Str(<<>>)

\* The response of request r as its client reads it.
Status(r) == responses[r][1].status
ClientBody(r) == JSONparse(responses[r][1].body).value
Field(r, k) == GetProp(ClientBody(r), k)

HasDegradedFields(r) ==
  /\ Field(r, ScoreKey) = Num(5)
  /\ Field(r, RiskKey) = Str(MediumRisk)
  /\ Field(r, SourcesKey) = Arr(<<>>)
  /\ Field(r, ClaimsCheckedKey) = Num(0)

HasErrorMarker(r) == Field(r, ErrorKey).t = "string"

\* How the provider settled the call of request r.
WasSettled(r) == settled[r] # <<>>
Outcome(r) == settled[r][1]
UpstreamFailed(r) ==
  /\ WasSettled(r)
  /\ \/ Outcome(r).type \in {"reject", "blocked"}
     \/ Outcome(r).type = "text" /\ JSONparse(Outcome(r).text).type = "throw"
RepliedObject(r) ==
  /\ WasSettled(r)
  /\ Outcome(r).type = "text"
  /\ JSONparse(Outcome(r).text).type = "normal"
  /\ JSONparse(Outcome(r).text).value.t = "object"
ReplyObject(r) == JSONparse(Outcome(r).text).value
Omits(r, k) == ~HasOwn(ReplyObject(r).m, k)

-----------------------------------------------------------------------------

\* C1: a request whose text is missing, is not a string, or is a string
\* shorter than 50 characters is answered with status 200, score 5, risk
\* "Medium Risk", no sources and claimsChecked 0, and no provider call is
\* made for it, in both variants and whatever the credential.
C1_DegenerateInputIsAnswered200 ==
  \A r \in Requests :
    Arrived(r) /\ ~IsStringOfAtLeast(Text(r), 50) =>
      /\ Answered(r)
      /\ Status(r) = 200
      /\ HasDegradedFields(r)
      /\ calls[r] = <<>>

\* C2: for every provider reply that parses to a JSON object the score in
\* the response is a number between 0 and 10, whatever the reply's score.
C2_ScoreAlwaysInRange ==
  \A r \in Requests :
    RepliedObject(r) /\ Answered(r) =>
      /\ Field(r, ScoreKey).t = "number"
      /\ Field(r, ScoreKey).n \in 0..10

\* C3 as stated: with the credential absent every request, whatever its
\* text, is answered with status 500 and the degraded payload.
C3_NoCredentialAlways500 ==
  \A r \in Requests :
    Arrived(r) /\ CredentialAbsent =>
      /\ Answered(r)
      /\ Status(r) = 500
      /\ HasErrorMarker(r)
      /\ HasDegradedFields(r)

\* C3, amended: with the credential absent every request whose text is a
\* string of at least 50 characters is answered with status 500, an error
\* marker and the degraded payload, while a request whose text is missing
\* or is a string shorter than 50 characters is answered with status 200
\* and the degenerate payload; no provider call is made either way.
C3_NoCredentialLongText500 ==
  \A r \in Requests :
    Arrived(r) /\ CredentialAbsent =>
      /\ calls[r] = <<>>
      /\ IsStringOfAtLeast(Text(r), 50) =>
           /\ Answered(r)
           /\ Status(r) = 500
           /\ HasErrorMarker(r)
           /\ HasDegradedFields(r)
      /\ Text(r).t = "undefined" \/ IsShortString(Text(r), 50) =>
           /\ Answered(r)
           /\ Status(r) = 200
           /\ HasDegradedFields(r)

C3_Witness ==
  \E r \in Requests :
    /\ GEMINI_API_KEY.t = "undefined"
    /\ IsStringOfAtLeast(Text(r), 50)
    /\ Answered(r)
    /\ Status(r) = 500

\* C4: when the provider call throws, or its reply text is not parseable
\* JSON, the request is answered once with status 500 and the fixed
\* degraded payload, which holds nothing of the reply, and no exception
\* leaves the handler.
C4_UpstreamFailureIsDegraded500 ==
  \A r \in Requests :
    UpstreamFailed(r) =>
      /\ Answered(r)
      /\ Status(r) = 500
      /\ HasErrorMarker(r)
      /\ HasDegradedFields(r)
      /\ responses[r][1].body = Stringify(FailedPayload(variant))
      /\ ~escaped[r]

C4_Witness ==
  \E r \in Requests :
    /\ WasSettled(r)
    /\ Outcome(r).type = "text"
    /\ Outcome(r).text # <<>>
    /\ JSONparse(Outcome(r).text).type = "throw"
    /\ Answered(r)
    /\ Status(r) = 500

\* A fully-shaped AnalysisResult.
FullyShaped(x) ==
  /\ x.t = "object"
  /\ GetProp(x, ScoreKey).t = "number"
  /\ GetProp(x, RiskKey).t = "string"
  /\ GetProp(x, SummaryKey).t = "string"
  /\ GetProp(x, SourcesKey).t = "array"
  /\ GetProp(x, ClaimsCheckedKey).t = "number"
  /\ GetProp(x, ClaimsCheckedKey).n >= 0

\* C5: every response body, on every path, is a fully-shaped
\* AnalysisResult: a numeric score, a string risk, a string summary, a
\* sequence of sources and a non-negative integer claimsChecked.
C5_EveryResponseFullyShaped ==
  \A r \in Requests :
    responses[r] # <<>> => FullyShaped(ClientBody(r))

\* C6: the user text of the provider request is the first
\* min(length, 5000) characters of the submitted text, after the fixed
\* instruction; and the response tells nothing of the truncation: it is the
\* response the same provider outcome yields for the truncated text.
C6_TextTruncatedTo5000 ==
  \A r \in Requests :
    calls[r] # <<>> =>
      LET sent == calls[r][1].userText.s
          prefix == PromptPrefix(variant)
          text == Text(r)
          kept == IF Len(text.s) <= 5000 THEN Len(text.s) ELSE 5000
      IN /\ text.t = "string"
         /\ Len(sent) = Len(prefix) + kept
         /\ SubSeq(sent, 1, Len(prefix)) = prefix
         /\ SubSeq(sent, Len(prefix) + 1, Len(sent)) = SubSeq(text.s, 1, kept)
         /\ pc[r] = "done" =>
              responses[r] =
                AnalyzeResume(variant, Str(SubSeq(text.s, 1, kept)),
                              Outcome(r)).responses

C6_Witness ==
  \E r \in Requests :
    /\ Text(r).t = "string"
    /\ Len(Text(r).s) > 5000
    /\ Len(calls[r]) = 1
    /\ Len(calls[r][1].userText.s) = Len(PromptPrefix(variant)) + 5000
    /\ Answered(r)
    /\ Status(r) = 200

\* C7: for a reply that parses to a JSON object, sources omitted gives an
\* empty sequence, claimsChecked omitted gives 0, and a value that is
\* present and truthy is returned unchanged.
C7_DefaultsAndPassThrough ==
  \A r \in Requests :
    RepliedObject(r) /\ Answered(r) =>
      LET sources == GetProp(ReplyObject(r), SourcesKey)
          claims == GetProp(ReplyObject(r), ClaimsCheckedKey)
      IN /\ Omits(r, SourcesKey) => Field(r, SourcesKey) = Arr(<<>>)
         /\ Omits(r, ClaimsCheckedKey) => Field(r, ClaimsCheckedKey) = Num(0)
         /\ Truthy(sources) => Field(r, SourcesKey) = sources
         /\ Truthy(claims) => Field(r, ClaimsCheckedKey) = claims

\* C8: for a numeric provider score s the returned score is 5 when s is 0
\* or missing and min(10, max(0, s)) otherwise, and risk is returned as
\* supplied.
C8_ScoreRuleAndRiskPassThrough ==
  \A r \in Requests :
    /\ RepliedObject(r)
    /\ Answered(r)
    /\ GetProp(ReplyObject(r), ScoreKey).t \in {"number", "undefined"}
    => LET s == GetProp(ReplyObject(r), ScoreKey)
       IN /\ Field(r, ScoreKey) =
               IF s.t = "undefined" \/ s.n = 0 THEN Num(5)
               ELSE IF s.n < 0 THEN Num(0)
               ELSE IF s.n > 10 THEN Num(10)
               ELSE s
          /\ Field(r, RiskKey) = GetProp(ReplyObject(r), RiskKey)

\* C9: a request issues at most one provider call over its lifetime:
\* exactly one when its text is a string of at least 50 characters and the
\* credential is present, none otherwise; a call is settled once and is
\* not repeated after it failed.
C9_AtMostOneCall ==
  \A r \in Requests :
    /\ Len(calls[r]) <= 1
    /\ Len(settled[r]) <= Len(calls[r])
    /\ Arrived(r) =>
         Len(calls[r]) =
           IF IsStringOfAtLeast(Text(r), 50) /\ ~CredentialAbsent THEN 1 ELSE 0

C9_Witness ==
  \E r \in Requests :
    /\ UpstreamFailed(r)
    /\ pc[r] = "done"
    /\ Len(calls[r]) = 1

\* The ways through the lifecycle received -> (degenerate | validated) ->
\* call in flight -> (parsed and clamped | failed) -> responded; a request
\* that fails before its call goes from validated to failed.
Lifecycles ==
  {<<"received", "degenerate", "responded">>,
   <<"received", "validated", "failed", "responded">>,
   <<"received", "validated", "call_in_flight", "parsed_and_clamped",
     "responded">>,
   <<"received", "validated", "call_in_flight", "failed", "responded">>}

\* C10: with any number of requests in flight and any order of the
\* provider's completions, each request goes through the stages of the
\* lifecycle in order and sends exactly one response: none while its call
\* is in flight, one as soon as the call has completed or failed, never
\* two; its provider request carries its own text and its response is
\* built from its own reply.
C10_OneResponsePerRequest ==
  \A r \in Requests :
    /\ Len(responses[r]) <= 1
    /\ pc[r] = "idle" => path[r] = <<>> /\ responses[r] = <<>>
    /\ pc[r] = "awaiting" =>
         /\ path[r] = <<"received", "validated", "call_in_flight">>
         /\ responses[r] = <<>>
         /\ ~WasSettled(r)
    /\ pc[r] = "done" => path[r] \in Lifecycles /\ Len(responses[r]) = 1
    /\ WasSettled(r) => pc[r] = "done"
    /\ calls[r] # <<>> =>
         calls[r][1].userText.s = PromptPrefix(variant) \o Text(r).s
    /\ pc[r] = "done" /\ WasSettled(r) =>
         IF RepliedObject(r)
         THEN /\ Status(r) = 200
              /\ Field(r, RiskKey) = GetProp(ReplyObject(r), RiskKey)
              /\ Field(r, SummaryKey) = GetProp(ReplyObject(r), SummaryKey)
         ELSE Status(r) = 500

C10_Witness ==
  \E r1, r2 \in Requests :
    /\ pc[r1] = "awaiting"
    /\ pc[r2] = "done"
    /\ RepliedObject(r2)
    /\ Text(r1) # Text(r2)
    /\ Status(r2) = 200
====
